---- MODULE Spec2Model ----
(***************************************************************************)
(* Inner-product argument engine of blitzar: the device driver             *)
(* (sxt/proof/inner_product/gpu_driver.cc) and the scalar fold kernel      *)
(* (sxt/proof/inner_product/scalar_fold_kernel.cc).                        *)
(*                                                                         *)
(* Scalars are the elements of a prime field; the Ristretto255 group is    *)
(* cyclic of the same prime order, so a group element is represented by    *)
(* its discrete logarithm with respect to a fixed base point.  The model   *)
(* uses the prime P in place of the 252-bit group order.                   *)
(***************************************************************************)
EXTENDS Integers, Sequences, FiniteSets, TLC

\* ------------------------------------------------------------------------
\* Bounds of the model
\* ------------------------------------------------------------------------
\* vectors have length 2^k for k in 1..MaxK
MaxK == 2
\* the prover's vector a is (s + i*t) mod P for s in 0..MaxSeed, t in 0..1
MaxSeed == 1
\* challenges are drawn from 2..MaxChallenge+1
MaxChallenge == 2
\* number of driver calls made outside the commit/fold order in one run
MaxMisuse == 1
\* a free-standing span passed to fold_scalars has at most MaxSpan elements
MaxSpan == 4
\* compute_commitments_cpu is given at most MaxSeqs sequences of at most MaxRows rows
MaxSeqs == 2
MaxRows == 2

\* ------------------------------------------------------------------------
\* Field and group primitives (external collaborators)
\* ------------------------------------------------------------------------
P == 7

Scalar == 0 .. (P - 1)

\* s25o::mul(r, a, b)  =>  r = a*b
mul(a, b) == (a * b) % P

\* s25o::muladd(r, a, b, c)  =>  r = a*b + c
muladd(a, b, c) == (a * b + c) % P

\* s25o::inv(r, a)  =>  r = a^-1 (a^(P-2), which is 0 for a = 0)
inv(a) == IF a = 0 THEN 0 ELSE CHOOSE y \in Scalar : (a * y) % P = 1

\* c21o::add(r, p, q)
add(p, q) == (p + q) % P

\* c21o::scalar_multiply(r, s, q)  =>  r = s*q
scalar_multiply(s, q) == (s * q) % P

\* the identity element of the group
Identity == 0

\* rsto::compress: the canonical encoding of a group element
compress(p) == <<p % P>>

\* the group element a canonical encoding stands for
decompress(c) == c[1]

Min(x, y) == IF x < y THEN x ELSE y

RECURSIVE SumTo(_, _, _)
SumTo(u, v, n) == IF n = 0 THEN 0 ELSE (SumTo(u, v, n - 1) + u[n] * v[n]) % P

\* s25o::async_inner_product(u, v): the value the future resolves to
inner_product(u, v) == SumTo(u, v, Min(Len(u), Len(v)))

\* mtxc21::async_compute_multiexponentiation(g, exponents): sum of e_i * g_i
multiexponentiation(g, e) == SumTo(e, g, Min(Len(g), Len(e)))

RECURSIVE Pow2(_)
Pow2(k) == IF k = 0 THEN 1 ELSE 2 * Pow2(k - 1)

\* ------------------------------------------------------------------------
\* Containers
\* ------------------------------------------------------------------------
\* content of device memory that was allocated and not yet written
Uninit == 0 - 1

\* memmg::managed_array<T>{n, alloc}: n uninitialised elements
managed_array(n) == [data |-> [i \in 1 .. n |-> Uninit], size |-> n]

\* managed_array::shrink(n): the logical size drops, the storage stays
shrink(arr, n) == [arr EXCEPT !.size = n]

\* the span over the logical content of an array
span(arr) == SubSeq(arr.data, 1, arr.size)

\* basct::subspan(s, offset, count) and basct::subspan(s, offset), 0-based
subspan(s, offset, count) == SubSeq(s, offset + 1, offset + count)
subspan_from(s, offset) == SubSeq(s, offset + 1, Len(s))

EmptyArray == [data |-> <<>>, size |-> 0]

\* ------------------------------------------------------------------------
\* Inputs
\* ------------------------------------------------------------------------
Vec(n, s, t) == [i \in 1 .. n |-> (s + (i - 1) * t) % P]

Lengths == {Pow2(k) : k \in 1 .. MaxK}

AVectors(n) == {Vec(n, s, t) : s \in 0 .. MaxSeed, t \in 0 .. 1}

\* proof_descriptor: b_vector, g_vector of equal power-of-two length, q_value
Descriptors(n) ==
  {[b_vector |-> Vec(n, 3, 1), g_vector |-> Vec(n, 1, 2), q_value |-> 1],
   [b_vector |-> Vec(n, 1, 0), g_vector |-> Vec(n, 2, 3), q_value |-> 3]}

Challenges == {x + 1 : x \in 1 .. MaxChallenge}

\* ------------------------------------------------------------------------
\* State
\* ------------------------------------------------------------------------
VARIABLES
  build,       \* "debug": SXT_DEBUG_ASSERT aborts; "release": it is compiled out
  descriptor,  \* the proof_descriptor (host memory, borrowed)
  a_input,     \* the prover's a_vector passed to make_workspace (host memory)
  work,        \* the gpu_workspace
  pc,          \* position of the driver call in flight
  stream,      \* the xenb::stream of make_workspace: owner and queued copies
  partial,     \* the two commit_to_fold_partial coroutines (L and R)
  slots,       \* the caller's l_value and r_value
  folds,       \* the fold kernels launched by fold and their arguments
  proof,       \* what the orchestrator collected: l_vector, r_vector, x_vector
  commit,      \* output slot of compute_expected_commitment
  protocol,    \* position in the per-workspace state machine of the driver contract
  kern,        \* a fold_scalars call on a free-standing span (specification SpecFold)
  other,       \* a second workspace over the same descriptor (specification SpecTwo)
  cpu          \* a compute_commitments_cpu call (specification SpecCommit)

vars == <<build, descriptor, a_input, work, pc, stream, partial, slots, folds,
          proof, commit, protocol, kern, other, cpu>>

NoWorkspace ==
  [live |-> FALSE, round_index |-> 0,
   a_vector |-> EmptyArray, b_vector |-> EmptyArray, g_vector |-> EmptyArray]

NoStream == [owner |-> "none", queue |-> <<>>]

\* a future: "none" (not created), "pending" or "ready" with its value
NoFuture == [state |-> "none", value |-> 0]
PendingFuture == [state |-> "pending", value |-> 0]
ReadyFuture(v) == [state |-> "ready", value |-> v]

NoPartial == [pc |-> "none", product_fut |-> NoFuture, u_commit_fut |-> NoFuture,
              u |-> <<>>, v |-> <<>>, g |-> <<>>, commit_p |-> Uninit]

NoPartials == [L |-> NoPartial, R |-> NoPartial]

\* a compressed element the callee has not written
Unwritten == <<>>

NoSlots == [l_value |-> Unwritten, r_value |-> Unwritten]

NoFolds ==
  [a |-> [case1 |-> "none", case2 |-> "none",
          m_low |-> 0, m_high |-> 0, mid |-> 0, m |-> 0],
   b |-> [case1 |-> "none", case2 |-> "none",
          m_low |-> 0, m_high |-> 0, mid |-> 0, m |-> 0],
   g |-> [fut |-> "none", decomposition |-> <<>>, n |-> 0],
   mid |-> 0]

NoProof == [l_vector |-> <<>>, r_vector |-> <<>>, x_vector |-> <<>>]

NoKern == [state |-> "off"]

NoOther == [state |-> "off"]

NoCpu == [state |-> "off"]

\* the driver contract's state machine: Fresh, RoundReady, Committed, Final;
\* misuse counts the calls made outside it, call and last are the last call and
\* its outcome, before holds the workspace as that call found it, fold_calls
\* counts the calls of fold
InitProtocol ==
  [state |-> "Fresh", misuse |-> 0, last |-> "none", call |-> "none", in_order |-> TRUE,
   before |-> [a |-> <<>>, b |-> <<>>, g |-> <<>>, round_index |-> 0],
   fold_calls |-> 0]

Init ==
  /\ build \in {"debug", "release"}
  /\ \E n \in Lengths :
       /\ descriptor \in Descriptors(n)
       /\ a_input \in AVectors(n)
  /\ work = NoWorkspace
  /\ pc = "idle"
  /\ stream = NoStream
  /\ partial = NoPartials
  /\ slots = NoSlots
  /\ folds = NoFolds
  /\ proof = NoProof
  /\ commit = Unwritten
  /\ protocol = InitProtocol
  /\ kern = NoKern
  /\ other = NoOther
  /\ cpu = NoCpu

\* ------------------------------------------------------------------------
\* make_workspace
\* ------------------------------------------------------------------------
\* the host span each async_copy_host_to_device of make_workspace reads
copy_source_b_from_a(which) ==
  IF which = "a" THEN a_input
  ELSE IF which = "b" THEN a_input
  ELSE descriptor.g_vector

copy_source(which) ==
  IF which = "a" THEN a_input
  ELSE IF which = "b" THEN descriptor.b_vector
  ELSE descriptor.g_vector

\* gpu_driver::make_workspace: allocates the three device arrays, queues the
\* three copies on one stream and returns await_and_own_stream(stream, res)
make_workspace ==
  /\ pc = "idle"
  /\ ~work.live
  /\ work' = [live |-> TRUE,
              round_index |-> 0,
              a_vector |-> managed_array(Len(a_input)),
              b_vector |-> managed_array(Len(descriptor.b_vector)),
              g_vector |-> managed_array(Len(descriptor.g_vector))]
  /\ stream' = [owner |-> "future", queue |-> <<"a", "b", "g">>]
  /\ pc' = "make_workspace"
  /\ protocol' = [protocol EXCEPT !.call = "make_workspace", !.last = "running"]
  /\ UNCHANGED <<build, descriptor, a_input, partial, slots, folds, proof, commit,
                 kern, other, cpu>>

\* basdv::async_copy_host_to_device: the copy at the head of the stream runs
copy_complete ==
  /\ pc = "make_workspace"
  /\ stream.queue # <<>>
  /\ LET which == Head(stream.queue)
         src == copy_source(which)
     IN work' = IF which = "a" THEN [work EXCEPT !.a_vector.data = src]
                ELSE IF which = "b" THEN [work EXCEPT !.b_vector.data = src]
                ELSE [work EXCEPT !.g_vector.data = src]
  /\ stream' = [stream EXCEPT !.queue = Tail(stream.queue)]
  /\ UNCHANGED <<build, descriptor, a_input, pc, partial, slots, folds, proof,
                 commit, protocol, kern, other, cpu>>

\* xena::await_and_own_stream: the future becomes ready once the stream has
\* drained, and the stream is released with it
await_and_own_stream_ready == stream.owner = "future" /\ stream.queue = <<>>

make_workspace_resolve ==
  /\ pc = "make_workspace"
  /\ await_and_own_stream_ready
  /\ pc' = "idle"
  /\ stream' = [stream EXCEPT !.owner = "released"]
  /\ protocol' = [protocol EXCEPT !.state = "RoundReady", !.last = "ok"]
  /\ UNCHANGED <<build, descriptor, a_input, work, partial, slots, folds, proof,
                 commit, kern, other, cpu>>

\* ------------------------------------------------------------------------
\* SXT_DEBUG_ASSERT
\* ------------------------------------------------------------------------
\* a violated SXT_DEBUG_ASSERT ends the process in a debug build
assert_aborts(cond) == build = "debug" /\ ~cond


\* ------------------------------------------------------------------------
\* The driver contract's state machine (4.4), kept beside the program
\* ------------------------------------------------------------------------
\* a run is followed until MaxMisuse calls were made outside the order
may_call == pc = "idle" /\ work.live /\ protocol.misuse < MaxMisuse

in_order(name) ==
  \/ name = "commit_to_fold" /\ protocol.state = "RoundReady"
  \/ name = "fold" /\ protocol.state = "Committed"

\* the call is noted; the driver itself keeps no such state
called(name) ==
  [protocol EXCEPT !.call = name,
                   !.last = "running",
                   !.in_order = in_order(name),
                   !.before = [a |-> span(work.a_vector),
                               b |-> span(work.b_vector),
                               g |-> span(work.g_vector),
                               round_index |-> work.round_index],
                   !.misuse = IF in_order(name) THEN @ ELSE @ + 1,
                   !.fold_calls = IF name = "fold" THEN @ + 1 ELSE @]

\* a call ends without a result: the process aborted on a violated assertion, or
\* the behaviour of the call is undefined
ended(name, how) ==
  /\ pc' = how
  /\ protocol' = [called(name) EXCEPT !.last = how]

\* ------------------------------------------------------------------------
\* commit_to_fold
\* ------------------------------------------------------------------------
\* async_inner_product and the multiexponentiation are specified for non-empty
\* spans of equal length only
defined_on(u, v) == Len(u) = Len(v) /\ Len(u) > 0

\* commit_to_fold_partial up to its first co_await: both operations are launched
commit_to_fold_partial(g_vector, u_vector, v_vector) ==
  [pc |-> "await_product",
   product_fut |-> PendingFuture,
   u_commit_fut |-> PendingFuture,
   u |-> u_vector,
   v |-> v_vector,
   g |-> subspan(g_vector, 0, Len(u_vector)),
   commit_p |-> Uninit]

\* the halves commit_to_fold hands to the L and to the R computation
commit_to_fold_halves_swapped(side, a, b, g, mid) ==
  IF side = "L"
  THEN [g |-> subspan(g, 0, mid), u |-> subspan(a, 0, mid), v |-> subspan_from(b, mid)]
  ELSE [g |-> subspan_from(g, mid), u |-> subspan_from(a, mid), v |-> subspan(b, 0, mid)]

commit_to_fold_halves(side, a, b, g, mid) ==
  IF side = "L"
  THEN [g |-> subspan_from(g, mid), u |-> subspan(a, 0, mid), v |-> subspan_from(b, mid)]
  ELSE [g |-> subspan(g, 0, mid), u |-> subspan_from(a, mid), v |-> subspan(b, 0, mid)]

\* the futures commit_to_fold co_awaits, in order
commit_to_fold_awaits_l_only == <<"L">>

commit_to_fold_awaits == <<"L", "R">>

\* the coroutine of commit_to_fold_partial resumed: it runs while the future
\* it awaits is ready, and writes the caller's slot at its end
RECURSIVE run_partial(_)
run_partial(p) ==
  IF p.pc = "await_product" /\ p.product_fut.state = "ready"
  THEN run_partial([p EXCEPT !.pc = "await_u_commit",
                             !.commit_p = scalar_multiply(p.product_fut.value,
                                                          descriptor.q_value)])
  ELSE IF p.pc = "await_u_commit" /\ p.u_commit_fut.state = "ready"
  THEN [p EXCEPT !.pc = "done", !.commit_p = add(p.u_commit_fut.value, p.commit_p)]
  ELSE p

\* the slots after the partial coroutines ran: rsto::compress(commit, commit_p)
written(sl, ps) ==
  [l_value |-> IF ps.L.pc = "done" THEN compress(ps.L.commit_p) ELSE sl.l_value,
   r_value |-> IF ps.R.pc = "done" THEN compress(ps.R.commit_p) ELSE sl.r_value]

\* the coroutine of commit_to_fold resumed: position i in its list of awaits
RECURSIVE run_awaits(_, _, _)
run_awaits(awaits, i, ready) ==
  IF i <= Len(awaits) /\ ready[awaits[i]] THEN run_awaits(awaits, i + 1, ready) ELSE i

partials_ready(ps) == [side \in {"L", "R"} |-> ps[side].pc = "done"]

\* the workspace as commit_to_fold leaves it: the call takes it const and only
\* reads its vectors through spans
commit_to_fold_workspace_counted(w) == [w EXCEPT !.round_index = @ + 1]

commit_to_fold_workspace(w) == w

\* gpu_driver::commit_to_fold up to its first co_await; a subspan that leaves
\* its span and an operation on spans it is not defined on are undefined
commit_to_fold ==
  /\ may_call
  /\ LET mid == work.g_vector.size \div 2
         a == span(work.a_vector)
         b == span(work.b_vector)
         g == span(work.g_vector)
         l == commit_to_fold_halves("L", a, b, g, mid)
         r == commit_to_fold_halves("R", a, b, g, mid)
     IN IF assert_aborts(mid > 0)
        THEN /\ ended("commit_to_fold", "aborted")
             /\ UNCHANGED partial
        ELSE IF ~(mid <= Len(a) /\ mid <= Len(b)
                  /\ defined_on(l.u, l.v) /\ defined_on(r.u, r.v))
        THEN /\ ended("commit_to_fold", "undefined")
             /\ UNCHANGED partial
        ELSE /\ partial' = [L |-> commit_to_fold_partial(l.g, l.u, l.v),
                            R |-> commit_to_fold_partial(r.g, r.u, r.v)]
             /\ pc' = "commit_to_fold"
             /\ protocol' = called("commit_to_fold")
  /\ work' = commit_to_fold_workspace(work)
  /\ UNCHANGED <<build, descriptor, a_input, stream, slots, folds, proof,
                 commit, kern, other, cpu>>

\* a sub-operation of commit_to_fold completes and its awaiter, if any, runs on
commit_step(ps) ==
  /\ partial' = ps
  /\ slots' = written(slots, ps)
  /\ UNCHANGED <<build, descriptor, a_input, work, stream, folds, commit, kern, pc,
                 proof, protocol, other, cpu>>

\* the inner product of one side completes
inner_product_complete(side) ==
  /\ pc = "commit_to_fold"
  /\ partial[side].product_fut.state = "pending"
  /\ commit_step([partial EXCEPT
                    ![side] = run_partial([@ EXCEPT !.product_fut =
                      ReadyFuture(inner_product(partial[side].u, partial[side].v))])])

\* the multiexponentiation of one side completes
multiexponentiation_complete(side) ==
  /\ pc = "commit_to_fold"
  /\ partial[side].u_commit_fut.state = "pending"
  /\ commit_step([partial EXCEPT
                    ![side] = run_partial([@ EXCEPT !.u_commit_fut =
                      ReadyFuture(multiexponentiation(partial[side].g, partial[side].u))])])

\* the future of commit_to_fold resolves: every future it awaits is ready; the
\* orchestrator appends the pair to the proof
commit_to_fold_resolve ==
  /\ pc = "commit_to_fold"
  /\ run_awaits(commit_to_fold_awaits, 1, partials_ready(partial))
       > Len(commit_to_fold_awaits)
  /\ pc' = "idle"
  /\ proof' = [proof EXCEPT !.l_vector = Append(@, slots.l_value),
                            !.r_vector = Append(@, slots.r_value)]
  /\ protocol' = [protocol EXCEPT
                    !.last = "ok",
                    !.state = IF protocol.in_order THEN "Committed" ELSE @]
  /\ UNCHANGED <<build, descriptor, a_input, work, stream, partial, slots, folds,
                 commit, kern, other, cpu>>

\* ------------------------------------------------------------------------
\* fold_scalars (scalar_fold_kernel.cc)
\* ------------------------------------------------------------------------
\* work item i of fold_scalars_case1: x = m_low*x; x = m_high*data[mid+i] + x
fold_scalars_case1_item_swapped(data, m_low, m_high, mid, i) ==
  [data EXCEPT ![i + 1] = muladd(m_low, data[mid + i + 1], mul(m_high, data[i + 1]))]

fold_scalars_case1_item(data, m_low, m_high, mid, i) ==
  [data EXCEPT ![i + 1] = muladd(m_high, data[mid + i + 1], mul(m_low, data[i + 1]))]

\* work item i of fold_scalars_case2, whose data pointer is scalars.data() + m
fold_scalars_case2_item_no_offset(data, m_low, m, i) ==
  [data EXCEPT ![i + 1] = mul(m_low, data[i + 1])]

fold_scalars_case2_item(data, m_low, m, i) ==
  [data EXCEPT ![m + i + 1] = mul(m_low, data[m + i + 1])]

\* the indices of the span, from 0, that work item i reads and writes
fold_scalars_case1_accesses(mid, i) == [reads |-> {i, mid + i}, writes |-> {i}]

fold_scalars_case2_accesses_no_offset(m, i) == [reads |-> {i}, writes |-> {i}]

fold_scalars_case2_accesses(m, i) == [reads |-> {m + i}, writes |-> {m + i}]

\* algi::for_each(f, count) of fold_scalars_case1, all its work items done
RECURSIVE fold_scalars_case1(_, _, _, _, _)
fold_scalars_case1(data, m_low, m_high, mid, count) ==
  IF count = 0 THEN data
  ELSE fold_scalars_case1_item(fold_scalars_case1(data, m_low, m_high, mid, count - 1),
                               m_low, m_high, mid, count - 1)

\* algi::for_each(f, mid - m) of fold_scalars_case2, all its work items done
RECURSIVE fold_scalars_case2(_, _, _, _)
fold_scalars_case2(data, m_low, m, count) ==
  IF count = 0 THEN data
  ELSE fold_scalars_case2_item(fold_scalars_case2(data, m_low, m, count - 1),
                               m_low, m, count - 1)

\* the SXT_DEBUG_ASSERT of fold_scalars on a device span of n elements
fold_scalars_shape(n, mid) == 0 < mid /\ mid < n /\ n <= 2 * mid

\* fold_scalars: the kernels it launches; fut2 exists only when m # mid
fold_scalars(n, m_low, m_high, mid) ==
  [case1 |-> "pending",
   case2 |-> IF n - mid = mid THEN "none" ELSE "pending",
   m_low |-> m_low, m_high |-> m_high, mid |-> mid, m |-> n - mid]

\* a call of fold_scalars: a violated assertion aborts a debug build; in a
\* release build m = n - mid and mid - m are unsigned, and the kernels stay
\* inside the span only when neither wraps around
fold_scalars_call(n, m_low, m_high, mid) ==
  [outcome |-> IF fold_scalars_shape(n, mid) THEN "ok"
               ELSE IF build = "debug" THEN "aborted"
               ELSE IF mid <= n /\ n <= 2 * mid THEN "ok"
               ELSE "undefined",
   kernels |-> fold_scalars(n, m_low, m_high, mid)]

NoKernel == [case1 |-> "none", case2 |-> "none",
             m_low |-> 0, m_high |-> 0, mid |-> 0, m |-> 0]

\* the future fold_scalars returns: fut1, or await_all(fut1, fut2)
fold_scalars_ready_fut1_only(k) == k.case1 = "ready"

fold_scalars_ready(k) ==
  /\ k.case1 = "ready"
  /\ k.m = k.mid \/ k.case2 = "ready"

\* ------------------------------------------------------------------------
\* fold_generators (generator_fold.h, generator_fold_kernel.h)
\* ------------------------------------------------------------------------
\* s25cn::max_bits_v for the field of the model
MaxBits == 3

bit(s, j) == (s \div Pow2(j)) % 2

\* decompose_generator_fold: digit j encodes bit j of m_low and of m_high
decompose_generator_fold(m_low, m_high) ==
  [j \in 1 .. MaxBits |-> bit(m_low, j - 1) + 2 * bit(m_high, j - 1)]

\* double-and-add over the digits j..MaxBits of the decomposition
RECURSIVE fold_generator_item(_, _, _, _)
fold_generator_item(decomposition, g_low, g_high, j) ==
  IF j > MaxBits THEN Identity
  ELSE LET rest == fold_generator_item(decomposition, g_low, g_high, j + 1)
           d == decomposition[j]
           term == add(scalar_multiply(d % 2, g_low), scalar_multiply(d \div 2, g_high))
       IN add(add(rest, rest), term)

\* fold_generators(g, decomposition): g[i] = m_low*g[i] + m_high*g[mid + i]
fold_generators(data, n, decomposition) ==
  LET mid == n \div 2
  IN [i \in 1 .. Len(data) |->
        IF i <= mid
        THEN fold_generator_item(decomposition, data[i], data[mid + i], 1)
        ELSE data[i]]

\* ------------------------------------------------------------------------
\* fold
\* ------------------------------------------------------------------------
\* the futures fold co_awaits, in order: a_fut alone when mid == 1
fold_awaits_a_only(mid) == <<"a">>

fold_awaits(mid) == IF mid = 1 THEN <<"a">> ELSE <<"a", "b", "g">>

\* the multipliers (m_low, m_high) fold passes for a_vector and for b_vector
fold_multipliers_same(which, x, x_inv) == <<x, x_inv>>

fold_multipliers(which, x, x_inv) ==
  IF which = "a" THEN <<x, x_inv>> ELSE <<x_inv, x>>

NoGeneratorFold == [fut |-> "none", decomposition |-> <<>>, n |-> 0]

\* ++work.round_index
next_round_twice(round_index) == round_index + 2

next_round(round_index) == round_index + 1

\* gpu_driver::fold up to its first co_await
fold(x) ==
  /\ may_call
  /\ LET mid == work.g_vector.size \div 2
         x_inv == inv(x)
         ma == fold_multipliers("a", x, x_inv)
         mb == fold_multipliers("b", x, x_inv)
         a_fut == fold_scalars_call(work.a_vector.size, ma[1], ma[2], mid)
         b_fut == fold_scalars_call(work.b_vector.size, mb[1], mb[2], mid)
         counted == [work EXCEPT !.round_index = next_round(@)]
         a_done == [counted EXCEPT !.a_vector = shrink(@, mid)]
         launched == [proof EXCEPT !.x_vector = Append(@, x)]
     IN IF a_fut.outcome # "ok"
        THEN /\ ended("fold", a_fut.outcome)
             /\ work' = counted
             /\ UNCHANGED <<folds, proof>>
        ELSE IF mid = 1
        THEN /\ work' = a_done
             /\ folds' = [a |-> a_fut.kernels, b |-> NoKernel,
                          g |-> NoGeneratorFold, mid |-> mid]
             /\ pc' = "fold"
             /\ proof' = launched
             /\ protocol' = called("fold")
        ELSE IF b_fut.outcome # "ok"
        THEN /\ ended("fold", b_fut.outcome)
             /\ work' = a_done
             /\ folds' = [a |-> a_fut.kernels, b |-> NoKernel,
                          g |-> NoGeneratorFold, mid |-> mid]
             /\ UNCHANGED proof
        ELSE /\ work' = [a_done EXCEPT !.b_vector = shrink(@, mid),
                                       !.g_vector = shrink(@, mid)]
             /\ folds' = [a |-> a_fut.kernels,
                          b |-> b_fut.kernels,
                          g |-> [fut |-> "pending",
                                 decomposition |-> decompose_generator_fold(x_inv, x),
                                 n |-> work.g_vector.size],
                          mid |-> mid]
             /\ pc' = "fold"
             /\ proof' = launched
             /\ protocol' = called("fold")
  /\ UNCHANGED <<build, descriptor, a_input, stream, partial, slots, commit, kern, other, cpu>>

\* the descriptor after a fold kernel wrote the workspace w: the kernels write
\* the device arrays make_workspace allocated, which are the workspace's own
descriptor_aliased(d, w) == [d EXCEPT !.b_vector = w.b_vector.data]

descriptor_after_fold(d, w) == d

fold_step ==
  /\ descriptor' = descriptor_after_fold(descriptor, work')
  /\ UNCHANGED <<build, a_input, pc, stream, partial, slots, proof, commit,
                 protocol, kern, other, cpu>>

\* the for_each of fold_scalars_case1 on a_vector or b_vector completes
fold_scalars_case1_complete(which) ==
  /\ pc = "fold"
  /\ folds[which].case1 = "pending"
  /\ LET k == folds[which]
     IN work' = IF which = "a"
                THEN [work EXCEPT !.a_vector.data =
                        fold_scalars_case1(@, k.m_low, k.m_high, k.mid, k.m)]
                ELSE [work EXCEPT !.b_vector.data =
                        fold_scalars_case1(@, k.m_low, k.m_high, k.mid, k.m)]
  /\ folds' = [folds EXCEPT ![which].case1 = "ready"]
  /\ fold_step

\* the for_each of fold_scalars_case2 on a_vector or b_vector completes
fold_scalars_case2_complete(which) ==
  /\ pc = "fold"
  /\ folds[which].case2 = "pending"
  /\ LET k == folds[which]
     IN work' = IF which = "a"
                THEN [work EXCEPT !.a_vector.data =
                        fold_scalars_case2(@, k.m_low, k.m, k.mid - k.m)]
                ELSE [work EXCEPT !.b_vector.data =
                        fold_scalars_case2(@, k.m_low, k.m, k.mid - k.m)]
  /\ folds' = [folds EXCEPT ![which].case2 = "ready"]
  /\ fold_step

\* the kernel of fold_generators completes
fold_generators_complete ==
  /\ pc = "fold"
  /\ folds.g.fut = "pending"
  /\ work' = [work EXCEPT !.g_vector.data =
                fold_generators(@, folds.g.n, folds.g.decomposition)]
  /\ folds' = [folds EXCEPT !.g.fut = "ready"]
  /\ fold_step

folds_ready(f) ==
  [which \in {"a", "b", "g"} |->
     IF which = "g" THEN f.g.fut = "ready" ELSE fold_scalars_ready(f[which])]

\* the future of fold resolves: every future it awaits is ready
fold_resolve ==
  /\ pc = "fold"
  /\ run_awaits(fold_awaits(folds.mid), 1, folds_ready(folds))
       > Len(fold_awaits(folds.mid))
  /\ pc' = "idle"
  /\ protocol' = [protocol EXCEPT
                    !.last = "ok",
                    !.state = IF ~protocol.in_order THEN @
                              ELSE IF work.a_vector.size = 1 THEN "Final"
                              ELSE "RoundReady"]
  /\ UNCHANGED <<build, descriptor, a_input, work, stream, partial, slots, folds,
                 proof, commit, kern, other, cpu>>

\* ------------------------------------------------------------------------
\* compute_expected_commitment (cpu_driver, to which gpu_driver delegates)
\* ------------------------------------------------------------------------
\* s_i: the product over the rounds j of x_j when bit j of i is 1, of x_j^-1
\* when it is 0, bit 0 being the least significant
RECURSIVE s_value(_, _, _)
s_value(x_vector, i, j) ==
  IF j > Len(x_vector) THEN 1
  ELSE mul(IF bit(i, j - 1) = 1 THEN x_vector[j] ELSE inv(x_vector[j]),
           s_value(x_vector, i, j + 1))

s_vector(x_vector, n) == [i \in 1 .. n |-> s_value(x_vector, i - 1, 1)]

\* the sum over the rounds j of x_j^2 * L_j + x_j^-2 * R_j
RECURSIVE lr_sum(_, _, _, _)
lr_sum(l_vector, r_vector, x_vector, j) ==
  IF j = 0 THEN Identity
  ELSE LET x == x_vector[j]
           x_inv == inv(x)
       IN add(lr_sum(l_vector, r_vector, x_vector, j - 1),
              add(scalar_multiply(mul(x, x), decompress(l_vector[j])),
                  scalar_multiply(mul(x_inv, x_inv), decompress(r_vector[j]))))

\* expected = <a'*s, g> + (a' * <s, b>)*q + sum_j (x_j^2*L_j + x_j^-2*R_j)
expected_commitment(d, l_vector, r_vector, x_vector, ap_value) ==
  LET s == s_vector(x_vector, Len(d.g_vector))
      as == [i \in 1 .. Len(s) |-> mul(ap_value, s[i])]
  IN compress(add(add(multiexponentiation(d.g_vector, as),
                      scalar_multiply(mul(ap_value, inner_product(s, d.b_vector)),
                                      d.q_value)),
                  lr_sum(l_vector, r_vector, x_vector, Len(x_vector))))

\* the number of rounds of a proof over vectors of length n
RECURSIVE Log2(_)
Log2(n) == IF n <= 1 THEN 0 ELSE 1 + Log2(n \div 2)

\* gpu_driver::compute_expected_commitment, called by the verifier with the
\* prover's output once the rounds are over
compute_expected_commitment ==
  /\ pc = "idle"
  /\ work.live
  /\ commit = Unwritten
  /\ work.a_vector.size = 1
  /\ Len(proof.x_vector) = Log2(Len(descriptor.g_vector))
  /\ Len(proof.l_vector) = Len(proof.x_vector)
  /\ commit' = expected_commitment(descriptor, proof.l_vector, proof.r_vector,
                                   proof.x_vector, span(work.a_vector)[1])
  /\ UNCHANGED <<build, descriptor, a_input, work, pc, stream, partial, slots,
                 folds, proof, protocol, kern, other, cpu>>

\* ------------------------------------------------------------------------
\* The driver under an orchestrator that awaits each call before the next
\* ------------------------------------------------------------------------
Next ==
  \/ make_workspace
  \/ copy_complete
  \/ make_workspace_resolve
  \/ commit_to_fold
  \/ \E side \in {"L", "R"} : inner_product_complete(side)
  \/ \E side \in {"L", "R"} : multiexponentiation_complete(side)
  \/ commit_to_fold_resolve
  \/ \E x \in Challenges : fold(x)
  \/ \E which \in {"a", "b"} : fold_scalars_case1_complete(which)
  \/ \E which \in {"a", "b"} : fold_scalars_case2_complete(which)
  \/ fold_generators_complete
  \/ fold_resolve
  \/ compute_expected_commitment

Spec == Init /\ [][Next]_vars

\* ------------------------------------------------------------------------
\* The driver on inputs outside the descriptor's contract: make_workspace takes
\* any a_vector and any descriptor, so the lengths may be 1 and may differ
\* ------------------------------------------------------------------------
AnyLengths == {Pow2(k) : k \in 0 .. MaxK}

InitAny ==
  /\ build \in {"debug", "release"}
  /\ \E n \in AnyLengths, na \in AnyLengths :
       /\ descriptor \in Descriptors(n)
       /\ a_input \in AVectors(na)
  /\ work = NoWorkspace
  /\ pc = "idle"
  /\ stream = NoStream
  /\ partial = NoPartials
  /\ slots = NoSlots
  /\ folds = NoFolds
  /\ proof = NoProof
  /\ commit = Unwritten
  /\ protocol = InitProtocol
  /\ kern = NoKern
  /\ other = NoOther
  /\ cpu = NoCpu

SpecAny == InitAny /\ [][Next]_vars

\* ------------------------------------------------------------------------
\* The round loop of the orchestrator (4.5): commit_to_fold, then fold with the
\* round's challenge, repeated while the length is above 1; every call is
\* awaited, and every operation launched on the device completes
\* ------------------------------------------------------------------------
round_loop_continues == work.a_vector.size > 1

NextLoop ==
  \/ make_workspace
  \/ copy_complete
  \/ make_workspace_resolve
  \/ commit_to_fold /\ in_order("commit_to_fold") /\ round_loop_continues
  \/ \E side \in {"L", "R"} : inner_product_complete(side)
  \/ \E side \in {"L", "R"} : multiexponentiation_complete(side)
  \/ commit_to_fold_resolve
  \/ \E x \in Challenges : fold(x) /\ in_order("fold")
  \/ \E which \in {"a", "b"} : fold_scalars_case1_complete(which)
  \/ fold_generators_complete
  \/ fold_resolve

SpecLoop == Init /\ [][NextLoop]_vars /\ WF_vars(NextLoop)

\* ------------------------------------------------------------------------
\* Two workspaces over one descriptor (5): the driver variables show the
\* workspace in focus, `other` keeps the second one; the focus may move at any
\* point, so the calls and the device operations of the two interleave freely
\* ------------------------------------------------------------------------
\* the prover's vector and the challenge of the second workspace
second_a(a) == [i \in 1 .. Len(a) |-> (a[i] + i) % P]
second_x(x) == IF x + 1 \in Challenges THEN x + 1 ELSE x - MaxChallenge + 1

session ==
  [a_input |-> a_input, work |-> work, pc |-> pc, stream |-> stream,
   partial |-> partial, slots |-> slots, folds |-> folds, proof |-> proof,
   protocol |-> protocol]

InitTwo ==
  /\ build \in {"debug", "release"}
  /\ \E n \in Lengths :
       /\ descriptor \in Descriptors(n)
       /\ a_input \in AVectors(n)
  /\ work = NoWorkspace
  /\ pc = "idle"
  /\ stream = NoStream
  /\ partial = NoPartials
  /\ slots = NoSlots
  /\ folds = NoFolds
  /\ proof = NoProof
  /\ commit = Unwritten
  /\ protocol = InitProtocol
  /\ kern = NoKern
  /\ cpu = NoCpu
  /\ \E x \in Challenges :
       other = [state |-> "on", focus |-> 1, x |-> <<x, second_x(x)>>,
                saved |-> [session EXCEPT !.a_input = second_a(a_input)]]

\* the focus moves to the other workspace
switch ==
  /\ other.state = "on"
  /\ other' = [other EXCEPT !.focus = 3 - @, !.saved = session]
  /\ a_input' = other.saved.a_input
  /\ work' = other.saved.work
  /\ pc' = other.saved.pc
  /\ stream' = other.saved.stream
  /\ partial' = other.saved.partial
  /\ slots' = other.saved.slots
  /\ folds' = other.saved.folds
  /\ proof' = other.saved.proof
  /\ protocol' = other.saved.protocol
  /\ UNCHANGED <<build, descriptor, commit, kern, cpu>>

NextTwo ==
  \/ make_workspace
  \/ copy_complete
  \/ make_workspace_resolve
  \/ commit_to_fold /\ in_order("commit_to_fold") /\ round_loop_continues
  \/ \E side \in {"L", "R"} : inner_product_complete(side)
  \/ \E side \in {"L", "R"} : multiexponentiation_complete(side)
  \/ commit_to_fold_resolve
  \/ fold(other.x[other.focus]) /\ in_order("fold")
  \/ \E which \in {"a", "b"} : fold_scalars_case1_complete(which)
  \/ fold_generators_complete
  \/ fold_resolve
  \/ switch

SpecTwo == InitTwo /\ [][NextTwo]_vars

\* ------------------------------------------------------------------------
\* fold_scalars on a free-standing device span, work item by work item
\* ------------------------------------------------------------------------
Multipliers == 1 .. (MaxChallenge + 1)

InitFold ==
  /\ build \in {"debug", "release"}
  /\ descriptor = [b_vector |-> <<>>, g_vector |-> <<>>, q_value |-> 0]
  /\ a_input = <<>>
  /\ work = NoWorkspace
  /\ pc = "idle"
  /\ stream = NoStream
  /\ partial = NoPartials
  /\ slots = NoSlots
  /\ folds = NoFolds
  /\ proof = NoProof
  /\ commit = Unwritten
  /\ protocol = InitProtocol
  /\ other = NoOther
  /\ cpu = NoCpu
  /\ \E n \in 1 .. MaxSpan, mid \in 0 .. MaxSpan, s \in 0 .. MaxSeed, t \in 0 .. 1,
        m_low \in Multipliers, m_high \in Multipliers :
       kern = [state |-> "start",
               scalars |-> Vec(n, s + 1, t),
               s0 |-> Vec(n, s + 1, t),
               mid |-> mid,
               m_low |-> m_low,
               m_high |-> m_high,
               k |-> NoKernel,
               items1 |-> {},
               items2 |-> {}]

kern_step == UNCHANGED <<build, descriptor, a_input, work, pc, stream, partial, slots,
                         folds, proof, commit, protocol, other, cpu>>

\* fold_scalars(scalars, m_low, m_high, mid) up to its return: the assertion,
\* then the launch of the for_each of case 1 and, when m # mid, of case 2
fold_scalars_launch ==
  /\ kern.state = "start"
  /\ LET n == Len(kern.scalars)
         call == fold_scalars_call(n, kern.m_low, kern.m_high, kern.mid)
         m == n - kern.mid
     IN kern' = IF call.outcome # "ok"
                THEN [kern EXCEPT !.state = call.outcome]
                ELSE [kern EXCEPT !.state = "launched",
                                  !.k = call.kernels,
                                  !.items1 = 0 .. (m - 1),
                                  !.items2 = IF m = kern.mid THEN {}
                                             ELSE 0 .. (kern.mid - m - 1)]
  /\ kern_step

\* one work item of fold_scalars_case1 runs
fold_scalars_case1_work_item(i) ==
  /\ kern.state = "launched"
  /\ i \in kern.items1
  /\ kern' = [kern EXCEPT
                !.scalars = fold_scalars_case1_item(@, kern.k.m_low, kern.k.m_high,
                                                    kern.k.mid, i),
                !.items1 = @ \ {i}]
  /\ kern_step

\* one work item of fold_scalars_case2 runs
fold_scalars_case2_work_item(i) ==
  /\ kern.state = "launched"
  /\ i \in kern.items2
  /\ kern' = [kern EXCEPT
                !.scalars = fold_scalars_case2_item(@, kern.k.m_low, kern.k.m, i),
                !.items2 = @ \ {i}]
  /\ kern_step

\* the future of a for_each becomes ready when its last work item is done
for_each_ready(case) ==
  /\ kern.state = "launched"
  /\ \/ case = 1 /\ kern.k.case1 = "pending" /\ kern.items1 = {}
        /\ kern' = [kern EXCEPT !.k.case1 = "ready"]
     \/ case = 2 /\ kern.k.case2 = "pending" /\ kern.items2 = {}
        /\ kern' = [kern EXCEPT !.k.case2 = "ready"]
  /\ kern_step

\* the future fold_scalars returned resolves
fold_scalars_resolve ==
  /\ kern.state = "launched"
  /\ fold_scalars_ready(kern.k)
  /\ kern' = [kern EXCEPT !.state = "resolved"]
  /\ kern_step

NextFold ==
  \/ fold_scalars_launch
  \/ \E i \in 0 .. (MaxSpan - 1) : fold_scalars_case1_work_item(i)
  \/ \E i \in 0 .. (MaxSpan - 1) : fold_scalars_case2_work_item(i)
  \/ \E case \in {1, 2} : for_each_ready(case)
  \/ fold_scalars_resolve

SpecFold == InitFold /\ [][NextFold]_vars

\* ------------------------------------------------------------------------
\* compute_commitments_cpu (seqcommit/naive/commitment_computation_cpu.cc)
\* ------------------------------------------------------------------------
\* sqcb::compute_base_element(g_i, row_i): the generator of row row_i
compute_base_element(row_i) == (2 * row_i + 1) % P

\* fill_data(a_i, bytes, element_nbytes): the element's bytes, zeros after them;
\* the scalar they stand for is the element's value
fill_data(element) == element % P

\* c21rs::to_bytes(bytes, p): the encoding of the group element p
to_bytes(p) == compress(p)

\* the exponent sequences a caller may pass: n rows each, n = 0 included
ExponentSequences(n) == IF n = 0 THEN {<<>>} ELSE AVectors(n)

\* the values an object that was declared and never assigned may hold
Indeterminate == Scalar

InitCommit ==
  /\ build \in {"debug", "release"}
  /\ descriptor = [b_vector |-> <<>>, g_vector |-> <<>>, q_value |-> 0]
  /\ a_input = <<>>
  /\ work = NoWorkspace
  /\ pc = "idle"
  /\ stream = NoStream
  /\ partial = NoPartials
  /\ slots = NoSlots
  /\ folds = NoFolds
  /\ proof = NoProof
  /\ commit = Unwritten
  /\ protocol = InitProtocol
  /\ kern = NoKern
  /\ other = NoOther
  /\ \E num_sequences \in 0 .. MaxSeqs :
       \E value_sequences \in
            [1 .. num_sequences -> UNION {ExponentSequences(n) : n \in 0 .. MaxRows}] :
         cpu = [state |-> "called",
                value_sequences |-> value_sequences,
                commitments |-> [k \in 1 .. num_sequences |-> Unwritten],
                colum_k |-> 0,
                row_i |-> 0,
                p_k |-> Uninit]

cpu_step == UNCHANGED <<build, descriptor, a_input, work, pc, stream, partial, slots,
                        folds, proof, commit, protocol, kern, other>>

\* the test of the loop over the columns: the next column starts with p_k
\* declared and not initialised, or the function returns
compute_commitments_cpu_column ==
  /\ cpu.state = "called"
  /\ cpu' = IF cpu.colum_k < Len(cpu.commitments)
            THEN [cpu EXCEPT !.state = "rows", !.row_i = 0, !.p_k = Uninit]
            ELSE [cpu EXCEPT !.state = "returned"]
  /\ cpu_step

\* one pass of the loop over the rows: h_i = a_i * g_i; p_k = h_i for row 0 and
\* p_k + h_i after it
compute_commitments_cpu_row ==
  /\ cpu.state = "rows"
  /\ cpu.row_i < Len(cpu.value_sequences[cpu.colum_k + 1])
  /\ LET g_i == compute_base_element(cpu.row_i)
         a_i == fill_data(cpu.value_sequences[cpu.colum_k + 1][cpu.row_i + 1])
         h_i == scalar_multiply(a_i, g_i)
     IN cpu' = [cpu EXCEPT !.p_k = IF cpu.row_i = 0 THEN h_i ELSE add(@, h_i),
                           !.row_i = @ + 1]
  /\ cpu_step

\* c21rs::to_bytes(commitments[colum_k].data(), p_k) after the last row; a p_k
\* that was never assigned is read with an indeterminate value
compute_commitments_cpu_to_bytes ==
  /\ cpu.state = "rows"
  /\ cpu.row_i = Len(cpu.value_sequences[cpu.colum_k + 1])
  /\ \E p \in (IF cpu.p_k = Uninit THEN Indeterminate ELSE {cpu.p_k}) :
       cpu' = [cpu EXCEPT !.commitments[cpu.colum_k + 1] = to_bytes(p),
                          !.colum_k = @ + 1,
                          !.state = "called"]
  /\ cpu_step

NextCommit ==
  \/ compute_commitments_cpu_column
  \/ compute_commitments_cpu_row
  \/ compute_commitments_cpu_to_bytes

SpecCommit == InitCommit /\ [][NextCommit]_vars

\* ------------------------------------------------------------------------
\* Properties
\* ------------------------------------------------------------------------
\* the last driver call was `name` and its future has resolved
resolved(name) == pc = "idle" /\ protocol.call = name /\ protocol.last = "ok"

\* the commitment C = <a, g> + <a, b>*q of the prover's input
OriginalCommitment ==
  add(multiexponentiation(descriptor.g_vector, a_input),
      scalar_multiply(inner_product(a_input, descriptor.b_vector), descriptor.q_value))

\* the rounds were driven in order and the verifier has computed its commitment
Verified == commit # Unwritten /\ protocol.misuse = 0

\* C1: after k rounds of commit_to_fold and fold driven in order on vectors of
\* length 2^k, compute_expected_commitment on the collected L, R, the challenges
\* and the final a' yields the original commitment <a, g> + <a, b>*q.
C1_VerifierAccepts == Verified => commit = compress(OriginalCommitment)

\* the weight of g_i in the fully folded generator: round j halves the vectors,
\* so x_j goes with bit k-1-j of i (the first round with the most significant)
RECURSIVE folded_weight(_, _, _)
folded_weight(x_vector, i, j) ==
  IF j > Len(x_vector) THEN 1
  ELSE mul(IF bit(i, Len(x_vector) - j) = 1 THEN x_vector[j] ELSE inv(x_vector[j]),
           folded_weight(x_vector, i, j + 1))

\* what the prover's output satisfies in every run driven in order:
\* <a'*w, g> + (a' * <w, b>)*q = C + sum_j (x_j^2*L_j + x_j^-2*R_j), w the
\* folded weights; the sum enters expected_commitment with the opposite sign
ProverOutputConsistent ==
  Verified =>
    LET w == [i \in 1 .. Len(a_input) |-> folded_weight(proof.x_vector, i - 1, 1)]
        ap == span(work.a_vector)[1]
        aw == [i \in 1 .. Len(w) |-> mul(ap, w[i])]
    IN add(multiexponentiation(descriptor.g_vector, aw),
           scalar_multiply(mul(ap, inner_product(w, descriptor.b_vector)),
                           descriptor.q_value))
         = add(OriginalCommitment,
               lr_sum(proof.l_vector, proof.r_vector, proof.x_vector,
                      Len(proof.x_vector)))

\* C2: after every round r, the last included, the three workspace vectors
\* have the same length n / 2^r.
C2_EqualLengths ==
  (resolved("fold") /\ protocol.misuse = 0) =>
     /\ work.a_vector.size * Pow2(work.round_index) = Len(a_input)
     /\ work.b_vector.size = work.a_vector.size
     /\ work.g_vector.size = work.a_vector.size

\* the low half [0, mid) and the high half [mid, 2*mid) of a vector
low(v) == SubSeq(v, 1, Len(v) \div 2)
high(v) == SubSeq(v, Len(v) \div 2 + 1, Len(v))

\* <u, g> + <u, v>*q
commitment_of(u, g, v) ==
  add(multiexponentiation(g, u),
      scalar_multiply(inner_product(u, v), descriptor.q_value))

AllZero(v) == \A i \in 1 .. Len(v) : v[i] = 0

\* C3: commit_to_fold on vectors of length 2*mid, mid >= 1, writes
\* L = compress(<a_low, g_high> + <a_low, b_high>*q) and
\* R = compress(<a_high, g_low> + <a_high, b_low>*q); both are the identity
\* when a is all zero.
C3_CommitValues ==
  resolved("commit_to_fold") =>
    LET a == span(work.a_vector)
        b == span(work.b_vector)
        g == span(work.g_vector)
    IN /\ slots.l_value = compress(commitment_of(low(a), high(g), high(b)))
       /\ slots.r_value = compress(commitment_of(high(a), low(g), low(b)))
       /\ AllZero(a) => /\ slots.l_value = compress(Identity)
                        /\ slots.r_value = compress(Identity)

\* a commit_to_fold on vectors of length 4 has resolved with L and R different
\* from the identity
C3_Witness ==
  /\ resolved("commit_to_fold")
  /\ work.a_vector.size = 4 /\ work.b_vector.size = 4 /\ work.g_vector.size = 4
  /\ slots.l_value # compress(Identity)
  /\ slots.r_value # compress(Identity)
  /\ slots.l_value # slots.r_value

\* the challenge of the last fold call and its inverse
last_x == proof.x_vector[Len(proof.x_vector)]
last_x_inv == inv(last_x)

\* m_low*v[i] + m_high*v[mid + i]
folded(v, m_low, m_high, i) ==
  (m_low * v[i] + m_high * v[Len(v) \div 2 + i]) % P

\* the vectors a fold call found all had the length n
found_length(n) ==
  Len(protocol.before.a) = n /\ Len(protocol.before.b) = n /\ Len(protocol.before.g) = n

\* C4: fold(workspace, x) on vectors of length 2*mid with mid > 1 leaves, for
\* every i in [0, mid), a_vector[i] = x*a[i] + x^-1*a[mid+i],
\* b_vector[i] = x^-1*b[i] + x*b[mid+i] and g_vector[i] = x^-1*g[i] + x*g[mid+i],
\* a, b, g being the vectors before the call.
C4_FoldValues ==
  (resolved("fold") /\ \E mid \in 2 .. Len(a_input) : found_length(2 * mid)) =>
     \A i \in 1 .. (Len(protocol.before.g) \div 2) :
        /\ span(work.a_vector)[i] = folded(protocol.before.a, last_x, last_x_inv, i)
        /\ span(work.b_vector)[i] = folded(protocol.before.b, last_x_inv, last_x, i)
        /\ span(work.g_vector)[i] = folded(protocol.before.g, last_x_inv, last_x, i)

\* a fold of vectors of length 4 has resolved and changed a, b and g
C4_Witness ==
  /\ resolved("fold")
  /\ found_length(4)
  /\ span(work.a_vector) # SubSeq(protocol.before.a, 1, 2)
  /\ span(work.b_vector) # SubSeq(protocol.before.b, 1, 2)
  /\ span(work.g_vector) # SubSeq(protocol.before.g, 1, 2)
  /\ last_x # last_x_inv

\* the single fold of a proof over vectors of length 2 has resolved
single_fold_done ==
  /\ resolved("fold")
  /\ Len(a_input) = 2
  /\ work.round_index = 1
  /\ found_length(2)

\* C5 as stated: for n = 2 the single fold leaves a' = x*a0 + x^-1*a1,
\* b' = x^-1*b0 + x*b1 and g' = x^-1*g0 + x*g1 as the length-1 vectors of the
\* workspace.
C5_AllFoldedAtTwo ==
  single_fold_done =>
     /\ span(work.a_vector) = <<folded(protocol.before.a, last_x, last_x_inv, 1)>>
     /\ span(work.b_vector) = <<folded(protocol.before.b, last_x_inv, last_x, 1)>>
     /\ span(work.g_vector) = <<folded(protocol.before.g, last_x_inv, last_x, 1)>>

\* C5 as amended: for n = 2 the single fold leaves a' = x*a0 + x^-1*a1 as the
\* length-1 a_vector; the b and g folds are skipped, the first elements of
\* b_vector and g_vector are still b0 and g0.
C5_OnlyAFoldedAtTwo ==
  single_fold_done =>
     /\ span(work.a_vector) = <<folded(protocol.before.a, last_x, last_x_inv, 1)>>
     /\ work.b_vector.data[1] = protocol.before.b[1]
     /\ work.g_vector.data[1] = protocol.before.g[1]

\* the single fold of a proof with a = [1, 2] has resolved
C5_Witness ==
  /\ single_fold_done
  /\ protocol.before.a = <<1, 2>>
  /\ span(work.a_vector) # <<1>>
  /\ last_x # last_x_inv

\* the future of a fold_scalars call on a span of a valid shape has resolved
fold_scalars_done ==
  /\ kern.state = "resolved"
  /\ fold_scalars_shape(Len(kern.s0), kern.mid)

\* C6: fold_scalars(s, m_low, m_high, mid) with 0 < mid < n <= 2*mid and
\* m = n - mid leaves s[i] = m_low*s0[i] + m_high*s0[mid+i] for i in [0, m) and
\* s[i] = m_low*s0[i] for i in [m, mid); the span keeps its length n and its
\* entries at [mid, n).
C6_FoldScalars ==
  fold_scalars_done =>
    LET n == Len(kern.s0)
        mid == kern.mid
        m == n - mid
    IN /\ Len(kern.scalars) = n
       /\ \A i \in 1 .. n :
            kern.scalars[i] =
              IF i <= m
              THEN (kern.m_low * kern.s0[i] + kern.m_high * kern.s0[mid + i]) % P
              ELSE IF i <= mid THEN (kern.m_low * kern.s0[i]) % P
              ELSE kern.s0[i]

\* a fold_scalars call on a span with a shorter high half (n < 2*mid) has resolved
C6_Witness ==
  /\ fold_scalars_done
  /\ Len(kern.s0) = 3 /\ kern.mid = 2
  /\ kern.m_low # kern.m_high
  /\ kern.scalars # kern.s0

\* C7: the future of commit_to_fold resolves only after the L and the R
\* computation (multiexponentiation, inner product, combination, compression
\* into the caller's slot) have both finished, whatever the order in which the
\* four sub-operations complete.
C7_CommitResolvesLast ==
  resolved("commit_to_fold") =>
     \A side \in {"L", "R"} :
        /\ partial[side].pc = "done"
        /\ partial[side].product_fut.state = "ready"
        /\ partial[side].u_commit_fut.state = "ready"
        /\ (IF side = "L" THEN slots.l_value ELSE slots.r_value)
             = compress(partial[side].commit_p)

\* commit_to_fold has resolved with L and R finished
C7_Witness ==
  /\ resolved("commit_to_fold")
  /\ partial.L.pc = "done"
  /\ partial.R.pc = "done"
  /\ slots.l_value # Unwritten
  /\ slots.r_value # Unwritten

\* no kernel launched by the last fold call is still running
no_fold_pending ==
  /\ folds.a.case1 # "pending" /\ folds.a.case2 # "pending"
  /\ folds.b.case1 # "pending" /\ folds.b.case2 # "pending"
  /\ folds.g.fut # "pending"

\* C8: the future of fold resolves only after every fold it issued (the a fold,
\* and for mid > 1 the b fold and the g fold) has completed, on the mid == 1
\* path and on the mid > 1 path, for every completion order.
C8_FoldResolvesLast ==
  resolved("fold") =>
     /\ no_fold_pending
     /\ folds.a.case1 = "ready"
     /\ folds.mid > 1 => folds.b.case1 = "ready" /\ folds.g.fut = "ready"

\* a fold with mid > 1 has resolved with its three folds completed
C8_Witness ==
  /\ resolved("fold")
  /\ folds.mid > 1
  /\ folds.a.case1 = "ready" /\ folds.b.case1 = "ready" /\ folds.g.fut = "ready"

\* C9: the future of make_workspace completes only after the three
\* host-to-device copies (a, descriptor.b, descriptor.g) have completed, the
\* stream of the copies is owned by the future until then, and the workspace
\* has round_index 0 and vectors equal to a, descriptor.b and descriptor.g.
C9_MakeWorkspace ==
  /\ pc = "make_workspace" => stream.owner = "future"
  /\ resolved("make_workspace") =>
       /\ stream.queue = <<>>
       /\ work.round_index = 0
       /\ span(work.a_vector) = a_input
       /\ span(work.b_vector) = descriptor.b_vector
       /\ span(work.g_vector) = descriptor.g_vector

\* make_workspace has resolved on vectors of length 4
C9_Witness ==
  /\ resolved("make_workspace")
  /\ stream.owner = "released"
  /\ work.a_vector.size = 4
  /\ span(work.a_vector) # span(work.b_vector)

\* C10: a driver call made outside the order RoundReady -commit_to_fold->
\* Committed -fold-> RoundReady or Final (fold before commit_to_fold, two
\* commit_to_fold in a row, any call after Final) is rejected with
\* ProtocolMisuse.
C10_MisuseRejected ==
  (/\ protocol.call \in {"commit_to_fold", "fold"}
   /\ ~protocol.in_order
   /\ protocol.last # "running") =>
     protocol.last = "ProtocolMisuse"

\* the last driver call has ended by reporting `error`, or the process stopped
\* on a violated assertion
rejected(error) == protocol.last \in {error, "aborted"}

\* the workspace is as the last driver call found it
workspace_untouched ==
  /\ work.round_index = protocol.before.round_index
  /\ span(work.a_vector) = protocol.before.a
  /\ span(work.b_vector) = protocol.before.b
  /\ span(work.g_vector) = protocol.before.g

\* C11: commit_to_fold on a workspace whose g_vector has length 1 (mid == 0)
\* fails with DegenerateRound and writes neither L nor R.
C11_DegenerateRejected ==
  (/\ protocol.call = "commit_to_fold"
   /\ Len(protocol.before.g) = 1
   /\ protocol.last # "running") =>
     /\ rejected("DegenerateRound")
     /\ slots = NoSlots

\* C12: make_workspace with |a_vector| # |descriptor.b_vector| fails with
\* LengthMismatch; it creates no workspace and issues no copy.
C12_LengthMismatchRejected ==
  (/\ protocol.call = "make_workspace"
   /\ Len(a_input) # Len(descriptor.b_vector)
   /\ protocol.last # "running") =>
     /\ rejected("LengthMismatch")
     /\ ~work.live
     /\ stream = NoStream

\* C13: fold_scalars called with mid == 0, mid >= n or n > 2*mid fails with
\* InvalidShape before any mutation, and so does fold on a workspace of length
\* 1; fold hands fold_scalars the a_vector with mid = |g_vector| / 2.
C13_InvalidShapeRejected ==
  (/\ protocol.call = "fold"
   /\ ~fold_scalars_shape(Len(protocol.before.a), Len(protocol.before.g) \div 2)
   /\ protocol.last # "running") =>
     /\ rejected("InvalidShape")
     /\ workspace_untouched

\* the round loop has ended: no call is in flight, a_vector has length 1, and
\* k = log2(n) folds were made and k pairs (L, R) produced
round_loop_done ==
  LET k == Log2(Len(a_input))
  IN /\ pc = "idle" /\ work.live
     /\ work.a_vector.size = 1
     /\ work.round_index = k
     /\ Len(proof.x_vector) = k
     /\ Len(proof.l_vector) = k /\ Len(proof.r_vector) = k

\* C14: from a workspace of length n = 2^k, k >= 1, the round loop terminates:
\* a_vector reaches length 1 after exactly k folds and exactly k pairs (L, R),
\* never more, and no vector length drops below 1.
C14_RoundLoopTerminates ==
  /\ [](work.live =>
          /\ work.a_vector.size >= 1 /\ work.b_vector.size >= 1
          /\ work.g_vector.size >= 1
          /\ work.round_index <= Log2(Len(a_input))
          /\ Len(proof.l_vector) <= Log2(Len(a_input))
          /\ work.a_vector.size = 1 => work.round_index = Log2(Len(a_input)))
  /\ <>[]round_loop_done

\* the round loop on vectors of length 4 has ended after two rounds with
\* different challenges
C14_Witness ==
  /\ round_loop_done
  /\ Len(a_input) = 4
  /\ Len(proof.x_vector) = 2
  /\ proof.x_vector[1] # proof.x_vector[2]

\* ------------------------------------------------------------------------
\* The host driver: the sequential definition of a round (4.4.2, 4.4.3)
\* ------------------------------------------------------------------------
\* the folded low half of v
host_fold(v, m_low, m_high) ==
  [i \in 1 .. (Len(v) \div 2) |-> folded(v, m_low, m_high, i)]

\* round j and the rounds after it: L and R from the halves, then a folded with
\* (x, x^-1) and, when mid > 1, b and g with (x^-1, x); all three are truncated
\* to mid
RECURSIVE host_rounds(_, _, _)
host_rounds(h, x_vector, j) ==
  IF j > Len(x_vector) THEN h
  ELSE LET x == x_vector[j]
           x_inv == inv(x)
           mid == Len(h.a) \div 2
       IN host_rounds(
            [l_vector |-> Append(h.l_vector,
                                 compress(commitment_of(low(h.a), high(h.g), high(h.b)))),
             r_vector |-> Append(h.r_vector,
                                 compress(commitment_of(high(h.a), low(h.g), low(h.b)))),
             a |-> host_fold(h.a, x, x_inv),
             b |-> IF mid > 1 THEN host_fold(h.b, x_inv, x) ELSE low(h.b),
             g |-> IF mid > 1 THEN host_fold(h.g, x_inv, x) ELSE low(h.g)],
            x_vector, j + 1)

\* the host driver run on the prover's input with the challenges of x_vector
host_driver(x_vector) ==
  host_rounds([l_vector |-> <<>>, r_vector |-> <<>>,
               a |-> a_input, b |-> descriptor.b_vector, g |-> descriptor.g_vector],
              x_vector, 1)

\* the rounds were driven in order and the last fold has resolved
rounds_done == resolved("fold") /\ protocol.misuse = 0

\* C15: with the same descriptor, the same a and the same challenges, the
\* device driver, whatever the order in which its sub-operations complete, and
\* the host driver produce the same (L_i, R_i) in every round i, the same
\* vectors after every round with more to follow, and the same final a' and b'
\* (the first elements of a_vector and b_vector).
C15_HostDeviceParity ==
  rounds_done =>
    LET h == host_driver(proof.x_vector)
    IN /\ proof.l_vector = h.l_vector
       /\ proof.r_vector = h.r_vector
       /\ span(work.a_vector) = h.a
       /\ work.b_vector.data[1] = h.b[1]
       /\ Len(h.a) > 1 => span(work.b_vector) = h.b /\ span(work.g_vector) = h.g

\* the device driver has finished the two rounds of a proof over vectors of
\* length 4 with different challenges and different L
C15_Witness ==
  /\ rounds_done
  /\ Len(a_input) = 4
  /\ work.a_vector.size = 1
  /\ Len(proof.l_vector) = 2
  /\ proof.l_vector[1] # proof.l_vector[2]
  /\ proof.x_vector[1] # proof.x_vector[2]

\* C16: a workspace is mutated only by fold: no step of a commit_to_fold call
\* (the call, the completion of its sub-operations, its resolution) and no step
\* of compute_expected_commitment changes round_index or the contents or
\* lengths of a_vector, b_vector and g_vector.
C16_OnlyFoldMutates ==
  [][(protocol'.call = "commit_to_fold" \/ commit' # commit) => work' = work]_vars

\* the second commit_to_fold of a proof over vectors of length 4 has run on the
\* workspace the first fold left, and compute_expected_commitment has run
C16_Witness ==
  /\ commit # Unwritten
  /\ protocol.misuse = 0
  /\ Len(proof.l_vector) = 2
  /\ work.round_index = 2
  /\ slots.l_value # Unwritten

\* the workspace in focus is where the host driver, run alone on its a and its
\* challenges, is after the same calls
as_alone ==
  LET k == Len(proof.x_vector)
      h == host_driver(proof.x_vector)
  IN /\ Len(proof.l_vector) >= k /\ Len(proof.r_vector) = Len(proof.l_vector)
     /\ SubSeq(proof.l_vector, 1, k) = h.l_vector
     /\ SubSeq(proof.r_vector, 1, k) = h.r_vector
     /\ Len(proof.l_vector) > k =>
          /\ proof.l_vector[k + 1] = compress(commitment_of(low(h.a), high(h.g), high(h.b)))
          /\ proof.r_vector[k + 1] = compress(commitment_of(high(h.a), low(h.g), low(h.b)))
     /\ span(work.a_vector) = h.a
     /\ work.b_vector.data[1] = h.b[1]
     /\ work.g_vector.data[1] = h.g[1]
     /\ Len(h.a) > 1 => span(work.b_vector) = h.b /\ span(work.g_vector) = h.g

\* C17: no driver operation modifies the descriptor, and two workspaces made
\* from one descriptor are independent: however their commit_to_fold and fold
\* calls and device operations interleave, after every call each workspace has
\* the vectors and the (L, R) outputs it has when it runs alone.
C17_WorkspacesIndependent ==
  /\ [][descriptor' = descriptor]_vars
  /\ []((other.state = "on" /\ pc = "idle" /\ protocol.last = "ok") => as_alone)

\* both workspaces have finished the two rounds of a proof over vectors of
\* length 4, with different final a'
C17_Witness ==
  /\ other.state = "on"
  /\ rounds_done /\ work.a_vector.size = 1 /\ Len(proof.l_vector) = 2
  /\ other.saved.pc = "idle" /\ other.saved.work.a_vector.size = 1
  /\ Len(other.saved.proof.l_vector) = 2
  /\ span(work.a_vector) # span(other.saved.work.a_vector)
  /\ proof.l_vector # other.saved.proof.l_vector

\* the sum over the rows j of a_kj * g_j, the identity for no row
RECURSIVE pedersen_sum(_, _)
pedersen_sum(sequence, n) ==
  IF n = 0 THEN Identity
  ELSE add(pedersen_sum(sequence, n - 1),
           scalar_multiply(sequence[n] % P, compute_base_element(n - 1)))

\* C18: compute_commitments_cpu writes, for every sequence k, commitments[k] =
\* the encoding of the sum over the rows j of a_kj * g_j, for every sequence
\* length n_k, n_k = 0 included (the encoding of the identity); with no
\* sequence nothing is written.
C18_PedersenCommitments ==
  cpu.state = "returned" =>
    /\ Len(cpu.commitments) = Len(cpu.value_sequences)
    /\ \A k \in 1 .. Len(cpu.value_sequences) :
         cpu.commitments[k] =
           compress(pedersen_sum(cpu.value_sequences[k], Len(cpu.value_sequences[k])))

\* what compute_commitments_cpu writes for the sequences that have a row
PedersenCommitmentsWithRows ==
  cpu.state = "returned" =>
    \A k \in 1 .. Len(cpu.value_sequences) :
       Len(cpu.value_sequences[k]) > 0 =>
         cpu.commitments[k] =
           compress(pedersen_sum(cpu.value_sequences[k], Len(cpu.value_sequences[k])))

\* the work items <<case, i>> fold_scalars launched, and those still to run
work_items ==
  {<<1, i>> : i \in 0 .. (kern.k.m - 1)}
    \cup {<<2, i>> : i \in 0 .. (kern.k.mid - kern.k.m - 1)}

work_items_pending ==
  {<<1, i>> : i \in kern.items1} \cup {<<2, i>> : i \in kern.items2}

accesses(item) ==
  IF item[1] = 1 THEN fold_scalars_case1_accesses(kern.k.mid, item[2])
  ELSE fold_scalars_case2_accesses(kern.k.m, item[2])

\* the span after the work item ran on it
run_item(item, data) ==
  IF item[1] = 1
  THEN fold_scalars_case1_item(data, kern.k.m_low, kern.k.m_high, kern.k.mid, item[2])
  ELSE fold_scalars_case2_item(data, kern.k.m_low, kern.k.m, item[2])

\* C19: in fold_scalars case 1 writes [0, m) and reads [0, m) and [mid, n),
\* case 2 reads and writes [m, mid), and no index is written by one work item
\* and read or written by another; a work item changes the span only where it
\* writes, any two work items commute, and the final span is that of the
\* sequential order whatever the interleaving.
C19_DisjointWorkItems ==
  kern.state \in {"launched", "resolved"} =>
    LET n == Len(kern.s0)
        mid == kern.k.mid
        m == kern.k.m
        case(c) == {item \in work_items : item[1] = c}
    IN /\ UNION {accesses(item).writes : item \in case(1)} = 0 .. (m - 1)
       /\ UNION {accesses(item).reads : item \in case(1)}
            = (0 .. (m - 1)) \cup (mid .. (n - 1))
       /\ UNION {accesses(item).writes : item \in case(2)} = m .. (mid - 1)
       /\ UNION {accesses(item).reads : item \in case(2)} = m .. (mid - 1)
       /\ \A p \in work_items, q \in work_items :
            p # q => accesses(p).writes
                       \cap (accesses(q).reads \cup accesses(q).writes) = {}
       /\ \A p \in work_items_pending :
            \A j \in 0 .. (n - 1) :
               j \notin accesses(p).writes =>
                 run_item(p, kern.scalars)[j + 1] = kern.scalars[j + 1]
       /\ \A p \in work_items_pending, q \in work_items_pending :
            run_item(p, run_item(q, kern.scalars))
              = run_item(q, run_item(p, kern.scalars))
       /\ kern.state = "resolved" =>
            kern.scalars =
              fold_scalars_case2(
                fold_scalars_case1(kern.s0, kern.k.m_low, kern.k.m_high, mid, m),
                kern.k.m_low, m, mid - m)

\* on a span of 4 elements with mid = 3 a work item of case 2 has run before
\* the work item of case 1, another of case 2 is still to run
C19_Witness ==
  /\ kern.state = "launched"
  /\ Len(kern.s0) = 4 /\ kern.mid = 3
  /\ kern.items1 = {0}
  /\ kern.items2 = {1}
  /\ kern.scalars # kern.s0

\* C20: round_index is 0 after make_workspace, each fold call adds exactly 1
\* and nothing else changes it, so in every reachable state of a workspace
\* round_index is the number of fold calls made and
\* |a_vector| = n / 2^round_index; the states of a process that stopped on an
\* assertion or whose behaviour is undefined are left out.
C20_RoundIndexCounts ==
  (work.live /\ pc \notin {"aborted", "undefined"}) =>
    /\ work.round_index = protocol.fold_calls
    /\ work.a_vector.size * Pow2(work.round_index) = Len(a_input)

\* what holds of round_index while the calls follow the commit/fold order
RoundIndexCountsInOrder ==
  (work.live /\ protocol.misuse = 0) =>
    /\ work.round_index = protocol.fold_calls
    /\ work.round_index = Len(proof.x_vector)
    /\ work.a_vector.size * Pow2(work.round_index) = Len(a_input)

====
